---- MODULE Spec2Model ----
(***************************************************************************)
(* Verification model of the design-vs-live validator:                     *)
(*   validator/services/comparison_service.py      (Image Differ,          *)
(*                                                   Region Clusterer)     *)
(*   validator/services/css_validation_service.py  (Design Spec Extractor, *)
(*                                                   CSS Audit Engine)     *)
(* Each component has its own specification (SpecCluster, SpecCompare,     *)
(* SpecExtract, SpecValidate); the variables of the components a           *)
(* specification does not exercise stay at their idle values.              *)
(*                                                                         *)
(* Text is modelled as a sequence of one-character strings, so that        *)
(* trimming, formatting and concatenation are computed, not assumed.       *)
(* A Python dict is a function whose DOMAIN is the set of keys present.    *)
(***************************************************************************)
EXTENDS Integers, Sequences, FiniteSets, TLC

VARIABLES
    \* --- Region Clusterer (_find_mismatch_regions) ---
    raster,        \* the diff raster handed to the clusterer
    regions,       \* the list the last call returned
    runs,          \* number of calls made on this raster
    \* --- Image Differ (compare_images) ---
    design_file,   \* file at design_path: an image or Unreadable
    live_file,     \* file at live_path: an image or Unreadable
    threshold,     \* pixelmatch threshold, in tenths
    cmp_pc,        \* "start" | "returned" | "raised"
    mismatch,      \* returned mismatch count
    boxes,         \* returned region list
    diff_file,     \* raster saved at diff_path (NoFile until saved)
    \* --- Design Spec Extractor (extract_specs_from_zeplin) ---
    zeplin_data,   \* the design data dict
    specs,         \* the list returned
    ext_pc,        \* "start" | "returned" | "raised"
    \* --- CSS Audit Engine (validate_css) ---
    page,          \* what the live page answers: navigation, lookups, elements
    vc_pc,         \* "start" | "returned" | "raised" | "stored"
    mismatches,    \* the defect list returned
    element_inventory, \* the inventory returned
    \* --- Defect Locator (LocateDefectView, LocateAllDefectsView) ---
    css_mismatches,      \* report.raw_json_data['css_mismatches'] of the stored report
    context,             \* context of the last single locate (NoContext before)
    defects_with_coords, \* context['defects_with_coords'] of the last batch locate
    \* --- Validation runs (InputPageView.form_valid), one per request ---
    run_input,     \* per run: the form's zeplin_screen_id and live_url
    pc,            \* per run: the statement of form_valid the run is at
    files,         \* the files under MEDIA_ROOT, by path
    report,        \* per run: the unsaved report object
    saved,         \* the reports in the database
    errors         \* per run: the non-field errors added to the form

clusterVars == <<raster, regions, runs>>
compareVars == <<design_file, live_file, threshold, cmp_pc, mismatch, boxes, diff_file>>
extractVars == <<zeplin_data, specs, ext_pc>>
validateVars == <<page, vc_pc, mismatches, element_inventory>>
locateVars == <<css_mismatches, context, defects_with_coords>>
runVars == <<run_input, pc, files, report, saved, errors>>
viewVars == <<locateVars, runVars>>
vars == <<clusterVars, compareVars, extractVars, validateVars, viewVars>>

----------------------------------------------------------------------------
(* Bounds of the model                                                     *)

\* pixels of a raster that differ from its background colour
MaxPainted == 2
\* defects in the stored report
MaxDefects == 2
\* repeated clusterer calls on one raster
MaxRuns == 2
\* layers in the design data
MaxLayers == 2
\* optional fields missing from one layer record
MaxMissing == 2
\* live elements the page reports
MaxElements == 2

----------------------------------------------------------------------------
(* Generic helpers                                                         *)

Min(a, b) == IF a < b THEN a ELSE b
Max(a, b) == IF a > b THEN a ELSE b

Range(f) == {f[i] : i \in DOMAIN f}

\* seq[:n]
Take(seq, n) == SubSeq(seq, 1, Min(n, Len(seq)))

\* dict.get(k, default) and the empty dict
Get(d, k, default) == IF k \in DOMAIN d THEN d[k] ELSE default
\* the concatenation of a sequence of sequences: what a loop leaves that
\* appends zero or more items per iteration
RECURSIVE Flatten(_)
Flatten(seqs) == IF seqs = <<>> THEN <<>> ELSE Head(seqs) \o Flatten(Tail(seqs))

EmptyDict == <<>>

\* every ordering of the finite set S as a sequence (an iteration order of a set)
Enumerations(S) ==
    {f \in [1..Cardinality(S) -> S] : \A i, j \in DOMAIN f : f[i] = f[j] => i = j}

----------------------------------------------------------------------------
(* Rasters.  An RGBA image is kept as width, height, a background pixel    *)
(* and the finitely many pixels that differ from it; getdata() is the      *)
(* row-major pixel sequence, indexed from 0 as in the code.                *)

Transparent == <<0, 0, 0, 0>>
Red         == <<255, 0, 0, 255>>
EdgeRed     == <<201, 49, 49, 1>>
Dark        == <<0, 0, 0, 255>>
Gray        == <<230, 230, 230, 255>>
White       == <<255, 255, 255, 255>>
RedClear    == <<255, 0, 0, 0>>
R200        == <<200, 0, 0, 255>>
G50         == <<255, 50, 0, 255>>
B50         == <<255, 0, 50, 255>>

Image(w, h, bg, painted) == [width |-> w, height |-> h, bg |-> bg, painted |-> painted]

getdata(img) ==
    [i \in 0..(img.width * img.height - 1) |->
        LET p == <<i % img.width, i \div img.width>>
        IN  IF p \in DOMAIN img.painted THEN img.painted[p] ELSE img.bg]

----------------------------------------------------------------------------
(* Region Clusterer: ComparisonService._find_mismatch_regions              *)

RegionSize == 50

\* variant: the alpha channel is not tested
IsMismatch_AnyAlpha(pixel) == pixel[1] > 200 /\ pixel[2] < 50 /\ pixel[3] < 50

\* variant: only the red channel is tested
IsMismatch_RedOnly(pixel) == pixel[1] > 200 /\ pixel[4] > 0

\* the test of the scan loop: pixel[0] > 200 and pixel[1] < 50 and
\* pixel[2] < 50 and pixel[3] > 0 (tuples are 1-based here)
IsMismatch(pixel) ==
    pixel[1] > 200 /\ pixel[2] < 50 /\ pixel[3] < 50 /\ pixel[4] > 0

\* variant: the block index is not scaled back to a pixel origin
BlockOrigin_Unscaled(c, region_size) == c \div region_size

\* (c // region_size) * region_size
BlockOrigin(c, region_size) == (c \div region_size) * region_size

\* the set mismatch_blocks after the scan over range(height) x range(width)
MismatchBlocks(diff_data, width, height, region_size) ==
    { <<BlockOrigin(p[1], region_size), BlockOrigin(p[2], region_size)>> :
        p \in { q \in (0..(width - 1)) \X (0..(height - 1)) :
                    IsMismatch(diff_data[q[2] * width + q[1]]) } }

\* Python's order on 2-tuples of ints
TupleLess(a, b) == a[1] < b[1] \/ (a[1] = b[1] /\ a[2] < b[2])

RECURSIVE InsertSorted(_, _)
InsertSorted(seq, e) ==
    IF seq = <<>> THEN <<e>>
    ELSE IF TupleLess(e, Head(seq)) THEN <<e>> \o seq
    ELSE <<Head(seq)>> \o InsertSorted(Tail(seq), e)

RECURSIVE SortFrom(_, _)
SortFrom(acc, seq) ==
    IF seq = <<>> THEN acc ELSE SortFrom(InsertSorted(acc, Head(seq)), Tail(seq))

\* variant: the blocks are used in the order the set enumerated them
sorted_Skipped(seq) == seq

\* sorted(seq)
sorted(seq) == SortFrom(<<>>, seq)

\* variant: the box is not clipped to the canvas edge
RegionOf_Unclipped(b, width, height, region_size) ==
    [x |-> b[1], y |-> b[2], width |-> region_size, height |-> region_size]

\* one appended dict of the conversion loop
RegionOf(b, width, height, region_size) ==
    [x |-> b[1], y |-> b[2],
     width  |-> Min(region_size, width - b[1]),
     height |-> Min(region_size, height - b[2])]

\* the conversion loop, given the order in which list(mismatch_blocks)
\* enumerated the set
RegionsFrom(order, width, height, region_size) ==
    LET s == sorted(order)
    IN  [k \in 1..Len(s) |-> RegionOf(s[k], width, height, region_size)]

\* every list _find_mismatch_regions can return: list(set) enumerates the
\* blocks in an order the language does not fix
find_mismatch_regions(diff_data, width, height, region_size) ==
    { RegionsFrom(order, width, height, region_size) :
        order \in Enumerations(MismatchBlocks(diff_data, width, height, region_size)) }

----------------------------------------------------------------------------
(* Inputs of the clusterer                                                 *)

Canvases == {<<1, 1>>, <<51, 1>>, <<101, 1>>, <<1, 101>>, <<51, 51>>, <<100, 100>>}

Probes == {<<0, 0>>, <<49, 0>>, <<50, 0>>, <<100, 0>>, <<0, 50>>, <<95, 95>>,
           <<0, 100>>}

ProbesIn(w, h) == {p \in Probes : p[1] < w /\ p[2] < h}

BackgroundPalette == {Transparent, Red, EdgeRed, Dark, Gray, RedClear, R200, G50, B50}
PaintPalette == {Red}

\* the ways to paint at most MaxPainted probe pixels of a w x h canvas
Paintings(w, h, palette) ==
    UNION { [D -> palette] :
              D \in {S \in SUBSET ProbesIn(w, h) : Cardinality(S) <= MaxPainted} }

DiffRasters ==
    UNION { { Image(c[1], c[2], bg, painted) :
                bg \in BackgroundPalette,
                painted \in Paintings(c[1], c[2], PaintPalette) } : c \in Canvases }

NoRaster == Image(0, 0, Transparent, <<>>)

ClusterInit ==
    /\ raster \in DiffRasters
    /\ regions = <<>>
    /\ runs = 0

ClusterIdle ==
    /\ raster = NoRaster
    /\ regions = <<>>
    /\ runs = 0

\* one call _find_mismatch_regions(diff_data, width, height)
FindMismatchRegions ==
    /\ runs < MaxRuns
    /\ regions' \in find_mismatch_regions(getdata(raster), raster.width,
                                          raster.height, RegionSize)
    /\ runs' = runs + 1
    /\ UNCHANGED raster
    /\ UNCHANGED <<compareVars, extractVars, validateVars, viewVars>>

----------------------------------------------------------------------------
(* Image Differ: ComparisonService.compare_images                          *)

Unreadable == [readable |-> FALSE]
Readable(img) == [readable |-> TRUE, img |-> img]
NoFile == [saved |-> FALSE]

\* Image.new("RGBA", (width, height), (0, 0, 0, 0)) followed by
\* paste(img, (0, 0)): the image's pixels inside its own bounds, transparent
\* elsewhere
Canvas(img, width, height) ==
    [i \in 0..(width * height - 1) |->
        LET x == i % width
            y == i \div width
        IN  IF x < img.width /\ y < img.height
            THEN getdata(img)[y * img.width + x]
            ELSE Transparent]

\* pixelmatch (library): a channel blended with white by alpha a (0..255)
blend(c, a) == 255 - ((255 - c) * a) \div 255

\* pixelmatch (library): YIQ colour difference of two RGBA pixels, in
\* thousandths, computed in integers
color_delta(p1, p2) ==
    IF p1 = p2 THEN 0
    ELSE LET r1 == blend(p1[1], p1[4])  g1 == blend(p1[2], p1[4])  b1 == blend(p1[3], p1[4])
             r2 == blend(p2[1], p2[4])  g2 == blend(p2[2], p2[4])  b2 == blend(p2[3], p2[4])
             y == (299 * (r1 - r2) + 587 * (g1 - g2) + 114 * (b1 - b2)) \div 1000
             i == (596 * (r1 - r2) - 274 * (g1 - g2) - 322 * (b1 - b2)) \div 1000
             q == (211 * (r1 - r2) - 523 * (g1 - g2) + 311 * (b1 - b2)) \div 1000
         IN  505 * y * y + 299 * i * i + 196 * q * q

\* pixelmatch (library): maxDelta = 35215 * threshold^2, in thousandths,
\* for a threshold given in tenths
max_delta(t10) == 352150 * t10 * t10

\* pixelmatch (library), includeAA=True: the pixel counts as different
PixelDiffers(p1, p2, t10) == color_delta(p1, p2) > max_delta(t10)

\* pixelmatch (library): a matching pixel is drawn as the design pixel's
\* luminance faded towards white (alpha 0.1), fully opaque
gray_pixel(p) ==
    LET y == (299 * p[1] + 587 * p[2] + 114 * p[3]) \div 1000
        v == 255 - ((255 - y) * p[4]) \div 2550
    IN  <<v, v, v, 255>>

\* the raster pixelmatch writes into diff: the diff colour (255, 0, 0),
\* opaque, where the pixels differ
pixelmatch_output(c1, c2, n, t10) ==
    [i \in 0..(n - 1) |->
        IF PixelDiffers(c1[i], c2[i], t10) THEN Red ELSE gray_pixel(c1[i])]

\* the number pixelmatch returns
pixelmatch_count(c1, c2, n, t10) ==
    Cardinality({i \in 0..(n - 1) : PixelDiffers(c1[i], c2[i], t10)})

\* the file diff.save(diff_path) leaves: the raster's size and the set of
\* pixel values that occur in it
SavedRaster(data, width, height) ==
    [saved |-> TRUE, width |-> width, height |-> height,
     colours |-> {data[i] : i \in 0..(width * height - 1)}]

\* One call compare_images(design_path, live_path, diff_path, threshold).
\* Image.open on an unreadable file raises; nothing in compare_images
\* catches it
CompareImagesRaises ==
    /\ cmp_pc = "start"
    /\ design_file = Unreadable \/ live_file = Unreadable
    /\ cmp_pc' = "raised"
    /\ UNCHANGED <<design_file, live_file, threshold, mismatch, boxes, diff_file>>
    /\ UNCHANGED <<clusterVars, extractVars, validateVars, viewVars>>

CompareImagesReturns ==
    /\ cmp_pc = "start"
    /\ design_file # Unreadable /\ live_file # Unreadable
    /\ LET img1 == design_file.img
           img2 == live_file.img
           width == Max(img1.width, img2.width)
           height == Max(img1.height, img2.height)
           img1_canvas == Canvas(img1, width, height)
           img2_canvas == Canvas(img2, width, height)
           diff == pixelmatch_output(img1_canvas, img2_canvas, width * height, threshold)
       IN  /\ mismatch' = pixelmatch_count(img1_canvas, img2_canvas, width * height, threshold)
           /\ diff_file' = SavedRaster(diff, width, height)
           /\ boxes' \in find_mismatch_regions(diff, width, height, RegionSize)
    /\ cmp_pc' = "returned"
    /\ UNCHANGED <<design_file, live_file, threshold>>
    /\ UNCHANGED <<clusterVars, extractVars, validateVars, viewVars>>

----------------------------------------------------------------------------
(* Inputs of the differ                                                    *)

CompareProbes == {<<95, 95>>}

InputImages ==
    UNION { { Image(c[1], c[2], c[3], painted) :
                painted \in { f \in Paintings(c[1], c[2], {Dark}) :
                                DOMAIN f \subseteq CompareProbes } } :
            c \in {<<1, 1, White>>, <<1, 1, Dark>>, <<51, 1, Transparent>>,
                   <<60, 100, Dark>>, <<100, 100, White>>} }

InputFiles == {Unreadable} \cup {Readable(img) : img \in InputImages}

\* thresholds 0, 0.1 and 1, in tenths
Thresholds == {0, 1, 10}

CompareInit ==
    /\ design_file \in InputFiles
    /\ live_file \in InputFiles
    /\ threshold \in Thresholds
    /\ cmp_pc = "start"
    /\ mismatch = 0
    /\ boxes = <<>>
    /\ diff_file = NoFile

----------------------------------------------------------------------------
(* Text                                                                    *)

RECURSIVE lstrip(_)
lstrip(s) == IF s # <<>> /\ Head(s) = " " THEN lstrip(Tail(s)) ELSE s

RECURSIVE rstrip(_)
rstrip(s) ==
    IF s # <<>> /\ s[Len(s)] = " " THEN rstrip(SubSeq(s, 1, Len(s) - 1)) ELSE s

\* str.strip()
strip(s) == rstrip(lstrip(s))

DigitChar(d) == <<"0", "1", "2", "3", "4", "5", "6", "7", "8", "9">>[d + 1]

\* str(n) of a non-negative int
RECURSIVE Digits(_)
Digits(n) == IF n < 10 THEN <<DigitChar(n)>> ELSE Digits(n \div 10) \o <<DigitChar(n % 10)>>

\* str(n) of an int, as an f-string formats it
IntStr(n) == IF n < 0 THEN <<"-">> \o Digits(0 - n) ELSE Digits(n)

\* f"{v}px"
Px(v) == IntStr(v) \o <<"p", "x">>

\* f"rgb({r}, {g}, {b})"
Rgb(r, g, b) ==
    <<"r", "g", "b", "(">> \o IntStr(r) \o <<",", " ">> \o IntStr(g)
        \o <<",", " ">> \o IntStr(b) \o <<")">>

\* s.replace('"', '\\"')
RECURSIVE EscapeQuotes(_)
EscapeQuotes(s) ==
    IF s = <<>> THEN <<>>
    ELSE (IF Head(s) = "\"" THEN <<"\\", "\"">> ELSE <<Head(s)>>) \o EscapeQuotes(Tail(s))

----------------------------------------------------------------------------
(* Design Spec Extractor: CSSValidationService.extract_specs_from_zeplin   *)

\* variant: a text layer is taken whether or not it has content
LayerSelected_NoContentGuard(layer) == Get(layer, "type", "None") = "text"

\* layer.get('type') == 'text' and 'content' in layer
LayerSelected(layer) ==
    Get(layer, "type", "None") = "text" /\ "content" \in DOMAIN layer

\* variant: blank content is not skipped
IsBlank_Never(text_content) == FALSE

\* not text_content
IsBlank(text_content) == text_content = <<>>

Prop(name, value) == [prop |-> name, value |-> value]

\* if 'r' in color: ... expected_css['color'] = f"rgb({r}, {g}, {b})"
ColorCss(color) ==
    IF "r" \in DOMAIN color
    THEN <<Prop("color", Rgb(Get(color, "r", 0), Get(color, "g", 0), Get(color, "b", 0)))>>
    ELSE <<>>

\* the dict expected_css of one layer, as its items in insertion order
ExpectedCss(layer) ==
    LET style == Get(layer, "style", EmptyDict)
        font  == Get(style, "font", EmptyDict)
        color == Get(style, "color", EmptyDict)
        rect  == Get(layer, "rect", EmptyDict)
    IN  (IF "size" \in DOMAIN font THEN <<Prop("font-size", Px(font["size"]))>> ELSE <<>>)
        \o (IF "family" \in DOMAIN font THEN <<Prop("font-family", font["family"])>> ELSE <<>>)
        \o (IF "line_height" \in DOMAIN font
                THEN <<Prop("line-height", Px(font["line_height"]))>> ELSE <<>>)
        \o ColorCss(color)
        \o (IF "width" \in DOMAIN rect THEN <<Prop("width", Px(rect["width"]))>> ELSE <<>>)
        \o (IF "height" \in DOMAIN rect THEN <<Prop("height", Px(rect["height"]))>> ELSE <<>>)

SelectorPrefix == <<"t", "e", "x", "t", "=", "\"">>
NamePrefix == <<"Z", "e", "p", "l", "i", "n", " ", "L", "a", "y", "e", "r", ":", " ">>

\* the dict appended to specs
ZeplinSpec(text_content, expected_css) ==
    [selector |-> SelectorPrefix \o EscapeQuotes(Take(text_content, 30)) \o <<"\"">>,
     name     |-> NamePrefix \o Take(text_content, 40),
     expected |-> expected_css,
     source   |-> "zeplin"]

\* the loop body for one layer: [raised, out], out the specs it appends.
\* layer['content'] raises KeyError when the key is missing.
ExtractLayer(layer) ==
    IF ~LayerSelected(layer) THEN [raised |-> FALSE, out |-> <<>>]
    ELSE IF "content" \notin DOMAIN layer THEN [raised |-> TRUE, out |-> <<>>]
    ELSE LET text_content == strip(layer["content"])
             expected_css == ExpectedCss(layer)
         IN  IF IsBlank(text_content) THEN [raised |-> FALSE, out |-> <<>>]
             ELSE IF expected_css # <<>>
                  THEN [raised |-> FALSE, out |-> <<ZeplinSpec(text_content, expected_css)>>]
                  ELSE [raised |-> FALSE, out |-> <<>>]

RECURSIVE ExtractFrom(_, _)
ExtractFrom(layers, acc) ==
    IF layers = <<>> THEN [raised |-> FALSE, specs |-> acc]
    ELSE LET one == ExtractLayer(Head(layers))
         IN  IF one.raised THEN [raised |-> TRUE, specs |-> acc]
             ELSE ExtractFrom(Tail(layers), acc \o one.out)

\* extract_specs_from_zeplin(zeplin_data): [raised, specs]
extract_specs_from_zeplin(data) == ExtractFrom(Get(data, "layers", <<>>), <<>>)

\* one call extract_specs_from_zeplin(zeplin_data)
ExtractSpecs ==
    /\ ext_pc = "start"
    /\ LET res == extract_specs_from_zeplin(zeplin_data)
       IN  /\ ext_pc' = IF res.raised THEN "raised" ELSE "returned"
           /\ specs' = IF res.raised THEN specs ELSE res.specs
    /\ UNCHANGED zeplin_data
    /\ UNCHANGED <<clusterVars, compareVars, validateVars, viewVars>>

----------------------------------------------------------------------------
(* Inputs of the extractor                                                 *)

Arial == <<"A", "r", "i", "a", "l">>

\* a layer record with every optional field present
FullLayer(type, content) ==
    [type |-> type, content |-> content,
     style |-> [font  |-> [size |-> 16, family |-> Arial, line_height |-> 24],
                color |-> [r |-> 10, g |-> 20, b |-> 30]],
     rect |-> [width |-> 100, height |-> 40]]

OptionalFields == {"type", "content", "style", "font", "size", "family", "line_height",
                   "color", "r", "g", "b", "rect", "width", "height"}

DropKeys(d, M) == [k \in DOMAIN d \ M |-> d[k]]

\* the full layer with the fields in M (and what they hold) missing
LayerWithout(layer, M) ==
    LET font  == DropKeys(layer.style.font, M)
        color == DropKeys(layer.style.color, M)
        style == DropKeys([font |-> font, color |-> color], M)
        rect  == DropKeys(layer.rect, M)
    IN  DropKeys([type |-> layer.type, content |-> layer.content,
                  style |-> style, rect |-> rect], M)

LayerContents == { <<" ", "c", " ">>, <<"c", "\"">>, <<" ", " ">>, <<>> }

VariedLayers ==
    { LayerWithout(FullLayer(t, c), M) :
        t \in {"text", "shape"}, c \in LayerContents,
        M \in {S \in SUBSET OptionalFields : Cardinality(S) <= MaxMissing} }

BaseLayer == FullLayer("text", <<"b">>)

\* layer lists of at most MaxLayers layers: one varied layer among base layers
LayerLists ==
    {<<>>} \cup
    { [i \in 1..n |-> IF i = k THEN v ELSE BaseLayer] :
        n \in 1..MaxLayers, k \in 1..MaxLayers, v \in VariedLayers }

ZeplinInputs == {EmptyDict} \cup { [layers |-> ls] : ls \in LayerLists }

ExtractInit ==
    /\ zeplin_data \in ZeplinInputs
    /\ specs = <<>>
    /\ ext_pc = "start"

----------------------------------------------------------------------------
(* CSS Audit Engine: _check_zeplin_specs, _audit_live_page, validate_css   *)

\* the character U+2014 of the location and label texts
EmDash == "<em dash>"

\* what a style read that raises yields
Fault == <<"<raised>">>

\* variant: expected and actual change places
ZeplinDefect_Swapped(name, property, expected, actual) ==
    [element |-> name, property |-> property, expected |-> actual,
     actual |-> expected, source |-> "zeplin", status |-> "FAIL"]

ZeplinDefect(name, property, expected, actual) ==
    [element |-> name, property |-> property, expected |-> expected,
     actual |-> actual, source |-> "zeplin", status |-> "FAIL"]

\* the defect of the except branch
NotFoundDefect(name) ==
    ZeplinDefect(name, <<"element_found">>, <<"visible">>, <<"not_found">>)

\* the loop over expected.items() of one located element, reading each
\* computed style in turn: [raised, out]; a read that raises leaves the
\* defects appended before it in the list
RECURSIVE CheckProps(_, _, _, _)
CheckProps(name, items, styles, acc) ==
    IF items = <<>> THEN [raised |-> FALSE, out |-> acc]
    ELSE LET prop == Head(items).prop
             exp_val == Head(items).value
             actual_val == styles[prop]
         IN  IF actual_val = Fault THEN [raised |-> TRUE, out |-> acc]
             ELSE CheckProps(name, Tail(items), styles,
                    IF strip(actual_val) # strip(exp_val)
                    THEN Append(acc, ZeplinDefect(name, <<prop>>, exp_val, actual_val))
                    ELSE acc)

\* the try/except body for one spec: the defects it leaves in mismatches
CheckSpec(pg, spec) ==
    LET found == pg.lookup[spec.selector]
    IN  IF ~found.attached THEN <<NotFoundDefect(spec.name)>>
        ELSE LET res == CheckProps(spec.name, spec.expected, found.styles, <<>>)
             IN  IF res.raised THEN Append(res.out, NotFoundDefect(spec.name))
                 ELSE res.out

\* _check_zeplin_specs(page, zeplin_specs)
RECURSIVE check_zeplin_specs(_, _)
check_zeplin_specs(pg, zeplin_specs) ==
    IF zeplin_specs = <<>> THEN <<>>
    ELSE CheckSpec(pg, Head(zeplin_specs)) \o check_zeplin_specs(pg, Tail(zeplin_specs))

\* el['styles'].get(prop, '')
StyleOf(el, prop) == Get(el.styles, prop, <<>>)

\* tag.upper()
Upper(tag) ==
    CASE tag = "h1" -> "H1" [] tag = "h2" -> "H2" [] tag = "h3" -> "H3"
      [] tag = "h4" -> "H4" [] tag = "p" -> "P" [] tag = "a" -> "A"
      [] tag = "button" -> "BUTTON" [] tag = "li" -> "LI" [] tag = "span" -> "SPAN"
      [] OTHER -> tag

\* f"{el['name']} (em dash) \"{el.get('text', '')[:25]}\""
TextLabel(el) == el.name \o <<" ", EmDash, " ", "\"">> \o Take(Get(el, "text", <<>>), 25) \o <<"\"">>

\* f"{el['name']} ({el['selector']})"
SelectorLabel(el) == el.name \o <<" (">> \o el.selector \o <<")">>

\* f"({x}, {y}) (em dash) {width}x{height}px"
FullLocation(el) ==
    <<"(">> \o IntStr(el.position.x) \o <<",", " ">> \o IntStr(el.position.y)
        \o <<")", " ", EmDash, " ">> \o IntStr(el.position.width) \o <<"x">>
        \o IntStr(el.position.height) \o <<"p", "x">>

\* f"({x}, {y})"
PointLocation(el) ==
    <<"(">> \o IntStr(el.position.x) \o <<",", " ">> \o IntStr(el.position.y) \o <<")">>

AuditDefect(element, property, expected, actual, el, location, severity, description, css_fix, status) ==
    [element |-> element, property |-> property, expected |-> expected,
     actual |-> actual, selector |-> el.selector, location |-> location,
     severity |-> severity, description |-> description, css_fix |-> css_fix,
     source |-> "audit", status |-> status]

ConsistencyTags_HeadingsOnly == {"h1", "h2", "h3", "h4"}

ConsistencyTags == {"h1", "h2", "h3", "h4", "p", "a", "button", "li", "span"}

\* the entry font_map[key] the first element of a tag leaves
Reference(el) ==
    [font |-> StyleOf(el, "font-family"), size |-> StyleOf(el, "font-size"),
     weight |-> StyleOf(el, "font-weight"), color |-> StyleOf(el, "color"),
     line_height |-> StyleOf(el, "line-height"),
     name |-> el.name, selector |-> el.selector]

\* Check 1, else branch: the defects of one element against its tag's reference
ConsistencyDefects(el, ref) ==
    LET tag == el.tag
        font == StyleOf(el, "font-family")
        size == StyleOf(el, "font-size")
        color == StyleOf(el, "color")
    IN  (IF font # ref.font
         THEN <<AuditDefect(TextLabel(el), <<"font-family">>, ref.font, font, el,
                    FullLocation(el), "medium",
                    <<"This ", Upper(tag), " uses a different font-family than the first ",
                      Upper(tag), " on the page. All ", Upper(tag),
                      " elements should use the same font for visual consistency.">>,
                    el.selector \o <<" {\n  font-family: ">> \o ref.font \o <<";\n}">>,
                    "WARN")>>
         ELSE <<>>)
        \o
        (IF size # ref.size
         THEN <<AuditDefect(TextLabel(el), <<"font-size">>, ref.size, size, el,
                    FullLocation(el), "high",
                    <<"Font size mismatch: This ", Upper(tag), " is ">> \o size
                        \o <<" but the primary ", Upper(tag), " is ">> \o ref.size
                        \o <<". This breaks the visual hierarchy and likely does not match the Zeplin design.">>,
                    el.selector \o <<" {\n  font-size: ">> \o ref.size \o <<";\n}">>,
                    "FAIL")>>
         ELSE <<>>)
        \o
        (IF color # ref.color
         THEN <<AuditDefect(TextLabel(el), <<"color">>, ref.color, color, el,
                    FullLocation(el), "medium",
                    <<"Text color inconsistency: This ", Upper(tag), " has color ">> \o color
                        \o <<" but the primary ", Upper(tag), " uses ">> \o ref.color \o <<".">>,
                    el.selector \o <<" {\n  color: ">> \o ref.color \o <<";\n}">>,
                    "WARN")>>
         ELSE <<>>)

\* Check 1: font consistency across same element types
RECURSIVE ConsistencyCheck(_, _)
ConsistencyCheck(els, font_map) ==
    IF els = <<>> THEN <<>>
    ELSE LET el == Head(els)
         IN  IF el.tag \notin ConsistencyTags THEN ConsistencyCheck(Tail(els), font_map)
             ELSE IF el.tag \notin DOMAIN font_map
                  THEN ConsistencyCheck(Tail(els), (el.tag :> Reference(el)) @@ font_map)
                  ELSE ConsistencyDefects(el, font_map[el.tag])
                        \o ConsistencyCheck(Tail(els), font_map)

OverflowTags_DivOnly == {"div"}

OverflowTags == {"div", "nav", "header", "footer", "section", "main"}

\* Check 2, for one element (screen_width is truthy here)
OverflowDefects(el, screen_width) ==
    LET el_width == Get(el.position, "width", 0)
    IN  IF el.tag \in OverflowTags /\ el_width > screen_width + 20
        THEN <<AuditDefect(SelectorLabel(el), <<"width (overflow)">>,
                    <<"<= ">> \o Px(screen_width), Px(el_width), el,
                    PointLocation(el), "critical",
                    <<"This element is ">> \o Px(el_width - screen_width)
                        \o <<" wider than the Zeplin design width (">> \o Px(screen_width)
                        \o <<"). This causes horizontal scrollbar and layout overflow.">>,
                    el.selector \o <<" {\n  max-width: ">> \o Px(screen_width)
                        \o <<";\n  overflow-x: hidden;\n}">>,
                    "FAIL")>>
        ELSE <<>>

\* Check 3, for one element
ImageDefects(el) ==
    LET w == Get(el.position, "width", 0)
        h == Get(el.position, "height", 0)
    IN  IF el.tag = "img" /\ (w = 0 \/ h = 0)
        THEN <<AuditDefect(SelectorLabel(el), <<"dimensions">>,
                    <<"visible width & height > 0">>,
                    IntStr(w) \o <<"x">> \o IntStr(h) \o <<"px (broken/hidden)">>, el,
                    PointLocation(el), "high",
                    <<"This image has zero width or height ", EmDash, " it is either broken (missing src), hidden by CSS, or has not loaded. Check the image src attribute and any CSS rules hiding it.">>,
                    <<"/* Check the img src attribute in HTML */\n">> \o el.selector
                        \o <<" {\n  display: block;\n  min-width: 100px;\n  min-height: 100px;\n}">>,
                    "FAIL")>>
        ELSE <<>>

ContrastTags_NoSpan == {"p", "a", "li", "h1", "h2", "h3", "h4", "button"}

ContrastTags == {"p", "span", "a", "li", "h1", "h2", "h3", "h4", "button"}

\* Check 4, for one element
ContrastDefects(el) ==
    LET color == StyleOf(el, "color")
        bg == StyleOf(el, "background-color")
    IN  IF el.tag \in ContrastTags /\ color # <<>> /\ bg # <<>> /\ color = bg
        THEN <<AuditDefect(TextLabel(el), <<"color vs background-color">>,
                    <<"text and background must differ">>,
                    <<"both are ">> \o color, el,
                    FullLocation(el), "critical",
                    <<"INVISIBLE TEXT: The text color and background color are both ">> \o color
                        \o <<". Users cannot read this element. This is an accessibility violation (WCAG 2.1).">>,
                    el.selector \o <<" {\n  color: #333333; /* or appropriate contrasting color */\n  /* OR */\n  background-color: transparent;\n}">>,
                    "FAIL")>>
        ELSE <<>>

NotAvailable == <<"N/A">>

\* Check 5: one inventory row
InventoryEntry(el) ==
    [element |-> el.name, selector |-> el.selector,
     text |-> Take(Get(el, "text", <<>>), 40),
     position |-> PointLocation(el),
     size |-> IntStr(el.position.width) \o <<"x">> \o IntStr(el.position.height) \o <<"p", "x">>,
     font |-> Take(Get(el.styles, "font-family", NotAvailable), 40),
     font_size |-> Get(el.styles, "font-size", NotAvailable),
     font_weight |-> Get(el.styles, "font-weight", NotAvailable),
     color |-> Get(el.styles, "color", NotAvailable),
     bg_color |-> Get(el.styles, "background-color", NotAvailable),
     line_height |-> Get(el.styles, "line-height", NotAvailable),
     padding |-> Get(el.styles, "padding", NotAvailable),
     margin |-> Get(el.styles, "margin", NotAvailable)]

----------------------------------------------------------------------------
(* _extract_live_element_styles: the script evaluated in the page           *)
(* A DOM node is [tag, classes, type, role, text, styles, rect]; rect is    *)
(* the bounding client rect in tenths of a pixel, so that Math.round acts.  *)

\* one entry { sel, name } of the script's selectors list
Selector(tags, classes, types, roles, name) ==
    [tags |-> tags, classes |-> classes, types |-> types, roles |-> roles, name |-> name]

selectors ==
    << Selector({"h1"}, {}, {}, {}, <<"H1 Heading">>),
       Selector({"h2"}, {}, {}, {}, <<"H2 Heading">>),
       Selector({"h3"}, {}, {}, {}, <<"H3 Heading">>),
       Selector({"h4"}, {}, {}, {}, <<"H4 Heading">>),
       Selector({"p"}, {}, {}, {}, <<"Paragraph">>),
       Selector({"a"}, {}, {}, {}, <<"Anchor Link">>),
       Selector({"button"}, {"btn"}, {"submit"}, {}, <<"Button">>),
       Selector({"img"}, {}, {}, {}, <<"Image">>),
       Selector({"nav", "header"}, {}, {}, {"navigation"}, <<"Navigation">>),
       Selector({"footer"}, {}, {}, {}, <<"Footer">>),
       Selector({"input", "textarea", "select"}, {}, {}, {}, <<"Form Input">>),
       Selector({"li"}, {}, {}, {}, <<"List Item">>),
       Selector({"span"}, {}, {}, {}, <<"Span">>),
       Selector({"div"}, {}, {}, {}, <<"Div Container">>) >>

props ==
    {"font-size", "font-family", "font-weight", "color", "background-color",
     "line-height", "padding", "margin", "border", "border-radius",
     "text-decoration", "text-align", "width", "height", "display", "position"}

\* at most this many instances of each selector are read
InstanceLimit == 5

\* elements whose top lies below this many pixels are skipped
TopLimit == 5000

\* document.querySelectorAll(sel) keeps the nodes matching any alternative
QueryMatches(sel, node) ==
    \/ node.tag \in sel.tags
    \/ Range(node.classes) \cap sel.classes # {}
    \/ node.type \in sel.types
    \/ node.role \in sel.roles

\* Math.round on a length given in tenths of a pixel
MathRound(tenths) == (tenths + 5) \div 10

\* "if (rect.width === 0 && rect.height === 0) continue; if (rect.top > 5000) continue;"
\* (rect.top is rect.y: the rects have non-negative height)
Skipped(node) ==
    \/ node.rect.width = 0 /\ node.rect.height = 0
    \/ node.rect.y > TopLimit * 10

RECURSIVE JoinDot(_)
JoinDot(names) ==
    IF names = <<>> THEN <<>>
    ELSE IF Len(names) = 1 THEN <<names[1]>>
    ELSE <<names[1], ".">> \o JoinDot(Tail(names))

\* the record results.push builds for the i-th (from 0) match of a selector
LiveElement(node, name, i) ==
    LET classes == JoinDot(Take(node.classes, 3))
    IN  [selector |-> <<node.tag>> \o (IF classes # <<>> THEN <<".">> \o classes ELSE <<>>),
         name |-> name \o (IF i > 0 THEN <<" #">> \o IntStr(i + 1) ELSE <<>>),
         text |-> Take(strip(node.text), 50),
         tag |-> node.tag,
         styles |-> [p \in props |-> Get(node.styles, p, <<>>)],
         position |-> [x |-> MathRound(node.rect.x), y |-> MathRound(node.rect.y),
                       width |-> MathRound(node.rect.width),
                       height |-> MathRound(node.rect.height)]]

\* the inner loop of the script for one selector
ExtractFor(entry, dom) ==
    LET IsMatch(node) == QueryMatches(entry, node)
        els == SelectSeq(dom, IsMatch)
        limit == Min(Len(els), InstanceLimit)
    IN  Flatten([i \in 1..limit |->
                    IF Skipped(els[i]) THEN <<>>
                    ELSE <<LiveElement(els[i], entry.name, i - 1)>>])

\* _extract_live_element_styles(page): the results list
extract_live_element_styles(pg) ==
    Flatten([s \in DOMAIN selectors |-> ExtractFor(selectors[s], pg.dom)])

\* _audit_live_page(page, zeplin_data): [mismatches, inventory]
audit_live_page(pg, data) ==
    LET live_elements == extract_live_element_styles(pg)
        screen == Get(data, "screen", EmptyDict)
        has_width == "width" \in DOMAIN screen /\ screen["width"] # 0
    IN  [mismatches |->
            ConsistencyCheck(live_elements, EmptyDict)
            \o (IF has_width
                THEN Flatten([k \in DOMAIN live_elements |->
                                OverflowDefects(live_elements[k], screen["width"])])
                ELSE <<>>)
            \o Flatten([k \in DOMAIN live_elements |-> ImageDefects(live_elements[k])])
            \o Flatten([k \in DOMAIN live_elements |-> ContrastDefects(live_elements[k])]),
         inventory |-> [k \in DOMAIN live_elements |-> InventoryEntry(live_elements[k])]]

\* validate_css(url, zeplin_data) when page.goto raises: the finally clause
\* closes the browser and the exception leaves validate_css
ValidateCssRaises ==
    /\ vc_pc = "start"
    /\ ~page.goto_ok
    /\ specs' = extract_specs_from_zeplin(zeplin_data).specs
    /\ vc_pc' = "raised"
    /\ UNCHANGED <<page, mismatches, element_inventory, zeplin_data, ext_pc>>
    /\ UNCHANGED <<clusterVars, compareVars, viewVars>>

\* variant: the audit defects are put before those of the cross-check
ValidateCssReturns_AuditFirst ==
    /\ vc_pc = "start"
    /\ page.goto_ok
    /\ LET zeplin_specs == extract_specs_from_zeplin(zeplin_data).specs
           zeplin_mismatches ==
               IF zeplin_specs # <<>> THEN check_zeplin_specs(page, zeplin_specs) ELSE <<>>
           audit == audit_live_page(page, zeplin_data)
       IN  /\ specs' = zeplin_specs
           /\ mismatches' = audit.mismatches \o zeplin_mismatches
           /\ element_inventory' = audit.inventory
    /\ vc_pc' = "returned"
    /\ UNCHANGED <<page, zeplin_data, ext_pc>>
    /\ UNCHANGED <<clusterVars, compareVars, viewVars>>

\* validate_css(url, zeplin_data) returning (mismatches, element_inventory);
\* specs holds the local zeplin_specs
ValidateCssReturns ==
    /\ vc_pc = "start"
    /\ page.goto_ok
    /\ LET zeplin_specs == extract_specs_from_zeplin(zeplin_data).specs
           zeplin_mismatches ==
               IF zeplin_specs # <<>> THEN check_zeplin_specs(page, zeplin_specs) ELSE <<>>
           audit == audit_live_page(page, zeplin_data)
       IN  /\ specs' = zeplin_specs
           /\ mismatches' = zeplin_mismatches \o audit.mismatches
           /\ element_inventory' = audit.inventory
    /\ vc_pc' = "returned"
    /\ UNCHANGED <<page, zeplin_data, ext_pc>>
    /\ UNCHANGED <<clusterVars, compareVars, viewVars>>

----------------------------------------------------------------------------
(* Inputs of validate_css                                                  *)

\* a text layer "b" with font size and family, a text layer "c" with font
\* size only
LayerB == LayerWithout(FullLayer("text", <<"b">>), {"rect", "color", "line_height"})
LayerC == LayerWithout(FullLayer("text", <<"c">>), {"rect", "color", "line_height", "family"})

SelectorB == SelectorPrefix \o <<"b", "\"">>
SelectorC == SelectorPrefix \o <<"c", "\"">>

DesignLayerLists ==
    UNION { [1..n -> {LayerB, LayerC}] : n \in 0..MaxLayers }

DesignInputs ==
    { [layers |-> ls] : ls \in DesignLayerLists }
    \cup { [layers |-> ls, screen |-> [width |-> 100]] : ls \in DesignLayerLists }

Serif == <<"G", "e", "o", "r", "g", "i", "a">>

NotAttached == [attached |-> FALSE, styles |-> EmptyDict]
Attached(styles) == [attached |-> TRUE, styles |-> styles]

\* what the page answers for the element of layer "b" and of layer "c"
LookupsB ==
    {NotAttached} \cup
    { Attached(("font-size" :> a) @@ ("font-family" :> b)) :
        a \in {<<" ">> \o Px(16), Px(14), Fault}, b \in {Arial, Serif, Fault} }
LookupsC ==
    {NotAttached} \cup
    { Attached("font-size" :> a) : a \in {<<" ">> \o Px(16), Px(14), Fault} }

Black == <<"r", "g", "b", "(", "0", ",", " ", "0", ",", " ", "0", ")">>
Pink  == <<"r", "g", "b", "(", "2", "5", "5", ",", " ", "0", ",", " ", "9", ")">>

\* a DOM node with the computed style the browser resolves for it; x, y, w,
\* h in tenths of a pixel
Node(tag, text, size, color, bg, x, y, w, h) ==
    [tag |-> tag, classes |-> <<>>, type |-> "", role |-> "", text |-> text,
     styles |-> ("font-family" :> Arial) @@ ("font-size" :> size) @@ ("font-weight" :> <<"4", "0", "0">>)
                @@ ("color" :> color) @@ ("background-color" :> bg)
                @@ ("line-height" :> Px(24)) @@ ("padding" :> Px(0)) @@ ("margin" :> Px(0)),
     rect |-> [x |-> x, y |-> y, width |-> w, height |-> h]]

LiveElementKinds ==
    { Node("p", <<"h", "i">>, Px(16), Black, Pink, 100, 200, 800, 300),
      Node("p", <<"y", "o">>, Px(14), Pink, Pink, 100, 600, 800, 300),
      Node("img", <<>>, Px(16), Black, Pink, 0, 1000, 0, 400),
      Node("div", <<"h", "i">>, Px(16), Black, Pink, 0, 0, 1210, 3000) }

LiveElementLists ==
    UNION { [1..n -> LiveElementKinds] : n \in 0..MaxElements }

Pages ==
    { [goto_ok |-> FALSE, lookup |-> EmptyDict, dom |-> <<>>] }
    \cup { [goto_ok |-> TRUE,
            lookup |-> (SelectorB :> lb) @@ (SelectorC :> lc),
            dom |-> els] :
            lb \in LookupsB, lc \in LookupsC, els \in LiveElementLists }

ValidateInit ==
    /\ zeplin_data \in DesignInputs
    /\ specs = <<>>
    /\ ext_pc = "idle"
    /\ page \in Pages
    /\ vc_pc = "start"
    /\ mismatches = <<>>
    /\ element_inventory = <<>>

----------------------------------------------------------------------------
(* Inputs of the audit of the live page                                    *)

WithStyle(node, prop, value) == [node EXCEPT !.styles = (prop :> value) @@ @]
WithAttrs(node, classes, type, role) ==
    [node EXCEPT !.classes = classes, !.type = type, !.role = role]

Paragraph == Node("p", <<"h", "i">>, Px(16), Black, Pink, 100, 200, 800, 300)
ParagraphColor == Node("p", <<"y", "o">>, Px(16), Pink, Black, 100, 600, 800, 300)
ParagraphLineHeight == WithStyle(Paragraph, "line-height", Px(30))

\* paragraphs that differ from Paragraph in one or two compared fields
TextNodes ==
    { Paragraph,
      WithStyle(Paragraph, "font-family", Serif),
      Node("p", <<" ", "y", "o">>, Px(14), Black, Pink, 100, 600, 800, 300),
      ParagraphColor,
      ParagraphLineHeight }

SpanSame == Node("span", <<"x">>, Px(16), Black, Black, 100, 900, 300, 200)
ImageZero == Node("img", <<>>, Px(16), Black, Pink, 0, 1000, 0, 0)
ImageNoWidth == Node("img", <<>>, Px(16), Black, Pink, 0, 1000, 0, 400)
ImageLoaded == Node("img", <<>>, Px(16), Black, Pink, 0, 1000, 400, 400)
DivAtTolerance == Node("div", <<"h", "i">>, Px(16), Black, Pink, 0, 0, 1200, 3000)
DivOver == Node("div", <<"h", "i">>, Px(16), Black, Pink, 0, 0, 1210, 3000)

OtherNodes ==
    { SpanSame,
      Node("span", <<"x">>, Px(16), <<>>, <<>>, 100, 900, 300, 200),
      ImageZero, ImageNoWidth, ImageLoaded,
      Node("img", <<>>, Px(16), Black, Pink, 0, 1000, 400, 0),
      Node("img", <<>>, Px(16), Black, Pink, 0, 1000, 4, 400),
      DivAtTolerance, DivOver,
      Node("div", <<"h", "i">>, Px(16), Black, Pink, 0, 0, 1204, 3000),
      Node("div", <<"h", "i">>, Px(16), Black, Pink, 0, 0, 1205, 3000),
      Node("nav", <<"h", "i">>, Px(16), Black, Pink, 0, 0, 2000, 500),
      WithAttrs(Node("section", <<"h", "i">>, Px(16), Black, Pink, 0, 0, 2000, 500),
                <<>>, "", "navigation"),
      Node("section", <<"h", "i">>, Px(16), Black, Pink, 0, 0, 2000, 500),
      Node("input", <<>>, Px(16), Black, Black, 0, 0, 2000, 500),
      WithAttrs(Node("a", <<"g", "o">>, Px(16), Pink, Pink, 100, 200, 800, 300),
                <<"btn", "lg">>, "", ""),
      Node("p", <<"f", "a", "r">>, Px(14), Pink, Pink, 100, 50010, 800, 300) }

\* more images than the script reads, the unloaded one first or last
CrowdedDoms ==
    { <<ImageNoWidth>> \o [i \in 1..InstanceLimit |-> ImageLoaded],
      [i \in 1..InstanceLimit |-> ImageLoaded] \o <<ImageNoWidth>> }

AuditDoms ==
    UNION { [1..n -> TextNodes \cup OtherNodes] : n \in 0..MaxElements }
    \cup [1..(MaxElements + 1) -> TextNodes]
    \cup CrowdedDoms

AuditDesigns ==
    { [layers |-> <<>>],
      [layers |-> <<>>, screen |-> EmptyDict],
      [layers |-> <<>>, screen |-> [width |-> 100]] }

AuditPages ==
    { [goto_ok |-> FALSE, lookup |-> EmptyDict, dom |-> <<>>] }
    \cup { [goto_ok |-> TRUE, lookup |-> EmptyDict, dom |-> dom] : dom \in AuditDoms }

AuditInit ==
    /\ zeplin_data \in AuditDesigns
    /\ specs = <<>>
    /\ ext_pc = "idle"
    /\ page \in AuditPages
    /\ vc_pc = "start"
    /\ mismatches = <<>>
    /\ element_inventory = <<>>

ValidateIdle ==
    /\ page = [goto_ok |-> FALSE, lookup |-> EmptyDict, dom |-> <<>>]
    /\ vc_pc = "idle"
    /\ mismatches = <<>>
    /\ element_inventory = <<>>

----------------------------------------------------------------------------
(* Defect Locator: LocateDefectView and LocateAllDefectsView                *)

IsDigit(ch) == ch \in {"0", "1", "2", "3", "4", "5", "6", "7", "8", "9"}

\* re.findall(r'(\d+)', location): the maximal digit runs, left to right;
\* cur is the run being read
RECURSIVE FindRuns(_, _)
FindRuns(location, cur) ==
    IF location = <<>> THEN (IF cur = <<>> THEN <<>> ELSE <<cur>>)
    ELSE IF IsDigit(Head(location)) THEN FindRuns(Tail(location), Append(cur, Head(location)))
    ELSE (IF cur = <<>> THEN <<>> ELSE <<cur>>) \o FindRuns(Tail(location), <<>>)

findall(location) == FindRuns(location, <<>>)

DigitValue(ch) == CHOOSE d \in 0..9 : DigitChar(d) = ch

\* int(s) of a digit run
RECURSIVE int(_)
int(s) == IF s = <<>> THEN 0 ELSE 10 * int(SubSeq(s, 1, Len(s) - 1)) + DigitValue(s[Len(s)])

Rect(x, y, w, h) == [x |-> x, y |-> y, w |-> w, h |-> h]

\* the single locate without its elif branch
ParseLocation_NeedsFour(defect) ==
    LET location == Get(defect, "location", <<>>)
        coords == findall(location)
    IN  IF location # <<>> /\ Len(coords) >= 4
        THEN Rect(int(coords[1]), int(coords[2]), int(coords[3]), int(coords[4]))
        ELSE Rect(0, 0, 200, 50)

\* LocateDefectView: x, y, w, h after parsing defect['location']
ParseLocation(defect) ==
    LET location == Get(defect, "location", <<>>)
        coords == findall(location)
    IN  IF location # <<>> /\ Len(coords) >= 4
        THEN Rect(int(coords[1]), int(coords[2]), int(coords[3]), int(coords[4]))
        ELSE IF location # <<>> /\ Len(coords) >= 2
        THEN Rect(int(coords[1]), int(coords[2]), 200, 50)
        ELSE Rect(0, 0, 200, 50)

\* LocateAllDefectsView: x, y, w, h after parsing defect['location']
ParseLocationAll(defect) ==
    LET location == Get(defect, "location", <<>>)
        coords == findall(location)
    IN  IF location # <<>> /\ Len(coords) >= 4
        THEN Rect(int(coords[1]), int(coords[2]), int(coords[3]), int(coords[4]))
        ELSE IF location # <<>> /\ Len(coords) >= 2
        THEN Rect(int(coords[1]), int(coords[2]), 0, 0)
        ELSE Rect(0, 0, 0, 0)

\* color_map.get(severity, 'info')
color_map(severity) ==
    CASE severity = "critical" -> "danger"
      [] severity = "high" -> "warning"
      [] severity = "medium" -> "info"
      [] OTHER -> "info"

\* the overlay without the floor at 0
Overlay_Unclamped(r) ==
    [defect_x |-> r.x - 2, defect_y |-> r.y - 2, defect_w |-> r.w + 4,
     defect_h |-> r.h + 4, label_y |-> r.y - 24]

\* LocateDefectView: the overlay geometry put in the context
Overlay(r) ==
    [defect_x |-> Max(r.x - 2, 0), defect_y |-> Max(r.y - 2, 0), defect_w |-> r.w + 4,
     defect_h |-> r.h + 4, label_y |-> Max(r.y - 24, 0)]

NoContext == <<>>

\* LocateDefectView.get_context_data for the url's idx
LocateDefectContext(defects, idx) ==
    LET defect == IF idx < Len(defects) THEN defects[idx + 1] ELSE EmptyDict
        severity == Get(defect, "severity", "medium")
    IN  [defect |-> defect, defect_idx |-> idx, severity_color |-> color_map(severity)]
        @@ Overlay(ParseLocation(defect))

\* LocateAllDefectsView: the copy appended for defect number idx (from 0),
\* if any
LocatedDefect(defect, idx) ==
    LET r == ParseLocationAll(defect)
        severity == Get(defect, "severity", "medium")
    IN  IF r.w > 0 /\ r.h > 0
        THEN << [idx |-> idx, x |-> Max(r.x - 2, 0), y |-> Max(r.y - 2, 0),
                 w |-> r.w + 4, h |-> r.h + 4, label_y |-> Max(r.y - 24, 0),
                 color_cls |-> color_map(severity),
                 problem_description |-> Get(defect, "description", <<"Mismatch detected.">>),
                 selector |-> Get(defect, "selector", <<"Unknown Selector">>),
                 expected_value |-> Get(defect, "expected", <<"N/A">>),
                 actual_value |-> Get(defect, "actual", <<"N/A">>),
                 element |-> Get(defect, "element", <<"Unknown Element">>),
                 property |-> Get(defect, "property", <<"N/A">>)]
                @@ defect >>
        ELSE <<>>

\* GET report/<pk>/locate/<idx>/
LocateDefect ==
    /\ \E idx \in 0..Len(css_mismatches) :
            context' = LocateDefectContext(css_mismatches, idx)
    /\ UNCHANGED <<css_mismatches, defects_with_coords>>
    /\ UNCHANGED <<clusterVars, compareVars, extractVars, validateVars, runVars>>

\* defects_with_coords before any batch locate
NotLocated == <<[located |-> FALSE]>>

\* GET report/<pk>/locate_all/
LocateAllDefects ==
    /\ defects_with_coords' =
            Flatten([k \in DOMAIN css_mismatches |-> LocatedDefect(css_mismatches[k], k - 1)])
    /\ UNCHANGED <<css_mismatches, context>>
    /\ UNCHANGED <<clusterVars, compareVars, extractVars, validateVars, runVars>>

\* --- the defects of stored reports ---

LocationFull == <<"(", "1", "0", "0", ",", " ", "2", "0", "0", ")", " ", EmDash, " ", "5", "0", "x", "3", "0", "p", "x">>
LocationNearOrigin == <<"(", "1", ",", "1", ")", " ", EmDash, " ", "1", "0", "x", "1", "0", "p", "x">>
LocationPoint == <<"(", "5", ",", " ", "6", "0", ")">>
LocationThree == <<"(", "5", ",", " ", "6", "0", ")", " ", "7">>
LocationFlat == <<"(", "3", "0", ",", " ", "4", "0", ")", " ", EmDash, " ", "0", "x", "3", "0", "p", "x">>

Locations ==
    { LocationFull, LocationNearOrigin, LocationPoint, LocationThree, LocationFlat,
      <<"(", "1", ",", " ", "2", ")", " ", EmDash, " ", "3", "x", "4", "p", "x", " ", "5">>,
      <<"7", "p", "x">>,
      <<"n", "/", "a">>,
      <<>> }

\* a defect as the audit leaves it, and as the Zeplin cross-check leaves it
\* (no location, no severity)
StoredDefects ==
    { [location |-> l, severity |-> "critical", property |-> <<"width (overflow)">>] : l \in Locations }
    \cup { [location |-> LocationFull, severity |-> v, property |-> <<"color">>] :
                v \in {"high", "medium", "low"} }
    \cup { [property |-> <<"element_found">>] }

LocateInit ==
    /\ css_mismatches \in UNION { [1..n -> StoredDefects] : n \in 0..MaxDefects }
    /\ context = NoContext
    /\ defects_with_coords = NotLocated

LocateIdle ==
    /\ css_mismatches = <<>>
    /\ context = NoContext
    /\ defects_with_coords = NotLocated

\* form_valid keeps the defects validate_css returned in the report it
\* saves: report.raw_json_data['css_mismatches'] = mismatches; report.save()
StoreMismatches ==
    /\ vc_pc = "returned"
    /\ css_mismatches' = mismatches
    /\ vc_pc' = "stored"
    /\ UNCHANGED <<context, defects_with_coords>>
    /\ UNCHANGED <<page, mismatches, element_inventory, zeplin_data, specs, ext_pc>>
    /\ UNCHANGED <<clusterVars, compareVars, runVars>>

\* paragraphs left of and above the viewport, each differing from Paragraph
\* in color or having no contrast
ParagraphLeft == Node("p", <<"y", "o">>, Px(16), Pink, Pink, -50, 600, 800, 300)
ParagraphAbove == Node("p", <<"u", "p">>, Px(16), Pink, Black, 100, -130, 800, 300)

OffscreenDoms ==
    UNION { [1..n -> {Paragraph, ParagraphColor, ParagraphLeft, ParagraphAbove}] :
                n \in 0..MaxElements }

RoundTripInit ==
    /\ zeplin_data = [layers |-> <<>>]
    /\ specs = <<>>
    /\ ext_pc = "idle"
    /\ page \in { [goto_ok |-> TRUE, lookup |-> EmptyDict, dom |-> dom] : dom \in OffscreenDoms }
    /\ vc_pc = "start"
    /\ mismatches = <<>>
    /\ element_inventory = <<>>

----------------------------------------------------------------------------
(* InputPageView.form_valid: validation runs served concurrently            *)

Runs == {1, 2}
ScreenIds == {"s1", "s2"}
LiveUrls == {"u1", "u2"}

\* the temp files of a run are named by the screen id alone
design_img_path(r) == <<"temp_design", run_input[r].screen_id>>
live_img_path(r) == <<"temp_live", run_input[r].screen_id>>
diff_img_path(r) == <<"temp_diff", run_input[r].screen_id>>

Paths == {"temp_design", "temp_live", "temp_diff"} \X ScreenIds

Absent == [kind |-> "absent"]
DesignImage(screen_id) == [kind |-> "design", of |-> screen_id]
Screenshot(live_url) == [kind |-> "live", of |-> live_url]
DiffImage(design, live) == [kind |-> "diff", design |-> design, live |-> live]

NewReport == [fields |-> {}, design_image |-> Absent, live_image |-> Absent, diff_image |-> Absent]

Assign(r, names) == [report EXCEPT ![r].fields = @ \cup names]

\* the except branch, were it to save the report it holds
OnException_Saving(r) ==
    /\ errors' = [errors EXCEPT ![r] = @ + 1]
    /\ pc' = [pc EXCEPT ![r] = "failed"]
    /\ saved' = saved \cup {[run |-> r] @@ report[r]}
    /\ UNCHANGED <<run_input, files, report>>

\* "except Exception as e": one form error, form_invalid, nothing saved
OnException(r) ==
    /\ errors' = [errors EXCEPT ![r] = @ + 1]
    /\ pc' = [pc EXCEPT ![r] = "failed"]
    /\ UNCHANGED <<run_input, files, report, saved>>

OthersUnchanged == UNCHANGED <<clusterVars, compareVars, extractVars, validateVars, locateVars>>

\* 1. Zeplin: fetch_screen_data returns and the screen has an original_url
FetchScreen(r) ==
    /\ pc[r] = "fetch"
    /\ report' = Assign(r, {"raw_json_data"})
    /\ pc' = [pc EXCEPT ![r] = "download"]
    /\ UNCHANGED <<run_input, files, saved, errors>>
    /\ OthersUnchanged

\* a call to an outside service raises (Zeplin, the design download, the
\* browser of the screenshot or of the CSS validation, the database), or the
\* screen has no original_url
ServiceRaises(r) ==
    /\ pc[r] \in {"fetch", "download", "screenshot", "css", "save"}
    /\ OnException(r)
    /\ OthersUnchanged

DownloadDesign(r) ==
    /\ pc[r] = "download"
    /\ files' = [files EXCEPT ![design_img_path(r)] = DesignImage(run_input[r].screen_id)]
    /\ pc' = [pc EXCEPT ![r] = "screenshot"]
    /\ UNCHANGED <<run_input, report, saved, errors>>
    /\ OthersUnchanged

\* 2. Screenshot
CaptureScreenshot(r) ==
    /\ pc[r] = "screenshot"
    /\ files' = [files EXCEPT ![live_img_path(r)] = Screenshot(run_input[r].live_url)]
    /\ report' = Assign(r, {"js_error_count", "dom_node_count"})
    /\ pc' = [pc EXCEPT ![r] = "compare"]
    /\ UNCHANGED <<run_input, saved, errors>>
    /\ OthersUnchanged

\* 3. Compare Images: reads the two paths, writes the diff path
CompareRun(r) ==
    /\ pc[r] = "compare"
    /\ files[design_img_path(r)] # Absent /\ files[live_img_path(r)] # Absent
    /\ files' = [files EXCEPT ![diff_img_path(r)] =
                    DiffImage(files[design_img_path(r)], files[live_img_path(r)])]
    /\ report' = Assign(r, {"pixel_mismatch_count", "mismatch_regions"})
    /\ pc' = [pc EXCEPT ![r] = "css"]
    /\ UNCHANGED <<run_input, saved, errors>>
    /\ OthersUnchanged

\* Image.open raises on a path that is gone
CompareRunRaises(r) ==
    /\ pc[r] = "compare"
    /\ files[design_img_path(r)] = Absent \/ files[live_img_path(r)] = Absent
    /\ OnException(r)
    /\ OthersUnchanged

\* 4. CSS Validation, and the status
CssValidation(r) ==
    /\ pc[r] = "css"
    /\ report' = Assign(r, {"css_mismatch_count", "zeplin_layer_count", "css_mismatches",
                            "element_inventory", "status"})
    /\ pc' = [pc EXCEPT ![r] = "attach_design"]
    /\ UNCHANGED <<run_input, files, saved, errors>>
    /\ OthersUnchanged

AttachStep ==
    [attach_design |-> [path |-> "temp_design", field |-> "design_image", next |-> "attach_live"],
     attach_live |-> [path |-> "temp_live", field |-> "live_image", next |-> "attach_diff"],
     attach_diff |-> [path |-> "temp_diff", field |-> "diff_image", next |-> "save"]]

\* "with open(path, 'rb') as f: report.<field>.save(name, File(f), save=False)"
AttachImage(r) ==
    /\ pc[r] \in DOMAIN AttachStep
    /\ LET step == AttachStep[pc[r]]
           path == <<step.path, run_input[r].screen_id>>
       IN  /\ files[path] # Absent
           /\ report' = [report EXCEPT ![r] = (step.field :> files[path]) @@ @]
           /\ pc' = [pc EXCEPT ![r] = step.next]
    /\ UNCHANGED <<run_input, files, saved, errors>>
    /\ OthersUnchanged

\* open raises on a path that is gone
AttachImageRaises(r) ==
    /\ pc[r] \in DOMAIN AttachStep
    /\ files[<<AttachStep[pc[r]].path, run_input[r].screen_id>>] = Absent
    /\ OnException(r)
    /\ OthersUnchanged

\* report.save()
SaveReport(r) ==
    /\ pc[r] = "save"
    /\ saved' = saved \cup {[run |-> r] @@ report[r]}
    /\ pc' = [pc EXCEPT ![r] = "remove_design"]
    /\ UNCHANGED <<run_input, files, report, errors>>
    /\ OthersUnchanged

RemoveStep ==
    [remove_design |-> [path |-> "temp_design", next |-> "remove_live"],
     remove_live |-> [path |-> "temp_live", next |-> "remove_diff"],
     remove_diff |-> [path |-> "temp_diff", next |-> "done"]]

\* Cleanup: one os.remove; a path that is gone raises and ends the cleanup
\* (except Exception: pass), then the redirect
RemoveTemp(r) ==
    /\ pc[r] \in DOMAIN RemoveStep
    /\ LET step == RemoveStep[pc[r]]
           path == <<step.path, run_input[r].screen_id>>
       IN  IF files[path] # Absent
           THEN /\ files' = [files EXCEPT ![path] = Absent]
                /\ pc' = [pc EXCEPT ![r] = step.next]
           ELSE /\ files' = files
                /\ pc' = [pc EXCEPT ![r] = "done"]
    /\ UNCHANGED <<run_input, report, saved, errors>>
    /\ OthersUnchanged

\* two requests with different inputs: different live urls, any screen ids
RunInputs ==
    { in \in [Runs -> [screen_id : ScreenIds, live_url : LiveUrls]] :
        \A a, b \in Runs : a # b => in[a].live_url # in[b].live_url }

RunsInit ==
    /\ run_input \in RunInputs
    /\ pc = [r \in Runs |-> "fetch"]
    /\ files = [p \in Paths |-> Absent]
    /\ report = [r \in Runs |-> NewReport]
    /\ saved = {}
    /\ errors = [r \in Runs |-> 0]

RunsIdle ==
    /\ run_input = [r \in Runs |-> [screen_id |-> "s1", live_url |-> "u1"]]
    /\ pc = [r \in Runs |-> "idle"]
    /\ files = [p \in Paths |-> Absent]
    /\ report = [r \in Runs |-> NewReport]
    /\ saved = {}
    /\ errors = [r \in Runs |-> 0]

ViewsIdle == LocateIdle /\ RunsIdle

----------------------------------------------------------------------------
(* Idle values of the other components                                     *)

CompareIdle ==
    /\ design_file = Unreadable
    /\ live_file = Unreadable
    /\ threshold = 0
    /\ cmp_pc = "idle"
    /\ mismatch = 0
    /\ boxes = <<>>
    /\ diff_file = NoFile

ExtractIdle ==
    /\ zeplin_data = <<>>
    /\ specs = <<>>
    /\ ext_pc = "idle"

----------------------------------------------------------------------------
(* Specification of the Region Clusterer                                   *)

InitCluster == ClusterInit /\ CompareIdle /\ ExtractIdle /\ ValidateIdle /\ ViewsIdle

NextCluster == FindMismatchRegions

SpecCluster == InitCluster /\ [][NextCluster]_vars

----------------------------------------------------------------------------
(* Claims about the Region Clusterer                                       *)

InRegion(x, y, r) ==
    /\ r.x <= x /\ x < r.x + r.width
    /\ r.y <= y /\ y < r.y + r.height

MismatchedPixels(img) ==
    { q \in (0..(img.width - 1)) \X (0..(img.height - 1)) :
        LET px == getdata(img)[q[2] * img.width + q[1]]
        IN  px[1] > 200 /\ px[2] < 50 /\ px[3] < 50 /\ px[4] > 0 }

\* C1: after a clusterer call, every pixel of the diff raster with r > 200,
\* g < 50, b < 50 and a > 0 lies inside the bounds of exactly one region of
\* the returned list.
C1_Coverage ==
    runs > 0 =>
        \A q \in MismatchedPixels(raster) :
            Cardinality({k \in DOMAIN regions : InRegion(q[1], q[2], regions[k])}) = 1

\* C1 witness: a call has returned at least two regions for a raster whose
\* mismatched pixels lie in different grid cells, one of them clipped.
C1_Witness ==
    /\ runs > 0
    /\ raster.width = 51 /\ raster.height = 51
    /\ Len(regions) = 2
    /\ \E q \in MismatchedPixels(raster) : q[1] = 50

\* C3: the returned list is strictly ascending by (x, then y), hence free of
\* duplicate cells, whatever order the blocks were enumerated in; and a
\* second call on the same raster returns the identical list.
C3_Ordered ==
    /\ [](runs > 0 =>
            \A i, j \in DOMAIN regions :
                i < j => \/ regions[i].x < regions[j].x
                         \/ (regions[i].x = regions[j].x /\ regions[i].y < regions[j].y))
    /\ [][runs > 0 => regions' = regions]_vars

\* C3 witness: two calls were made on a raster with blocks (0,50) and (50,0),
\* which the row-major scan meets in the opposite order.
C3_Witness ==
    /\ runs = 2
    /\ Len(regions) = 2
    /\ regions[1].x = 0 /\ regions[1].y = 50
    /\ regions[2].x = 50 /\ regions[2].y = 0

\* the origins of the grid cells holding at least one mismatched pixel
FlaggedCells(img) ==
    { <<(q[1] \div 50) * 50, (q[2] \div 50) * 50>> : q \in MismatchedPixels(img) }

\* C21: after a clusterer call the origins of the returned boxes are exactly
\* the origins of the 50 x 50 grid cells holding at least one pixel with
\* r > 200, g < 50, b < 50 and a > 0, one box per such cell, and every box
\* contains such a pixel.
C21_NoSpuriousRegions ==
    runs > 0 =>
        LET flagged == FlaggedCells(raster)
            bad == MismatchedPixels(raster)
        IN  /\ { <<regions[k].x, regions[k].y>> : k \in DOMAIN regions } = flagged
            /\ Len(regions) = Cardinality(flagged)
            /\ \A k \in DOMAIN regions :
                    \E q \in bad : InRegion(q[1], q[2], regions[k])

\* a 100 x 100 raster whose background is not a mismatch colour, with one
\* red pixel in its last cell: one box, three cells left out
C21_Witness ==
    /\ runs > 0
    /\ raster.width = 100 /\ raster.height = 100
    /\ raster.bg \in {Transparent, Dark, Gray, RedClear, R200, G50, B50}
    /\ Len(regions) = 1
    /\ regions[1].x = 50 /\ regions[1].y = 50

----------------------------------------------------------------------------
(* Specification of the Image Differ                                       *)

InitCompare == CompareInit /\ ClusterIdle /\ ExtractIdle /\ ValidateIdle /\ ViewsIdle

NextCompare == CompareImagesRaises \/ CompareImagesReturns

SpecCompare == InitCompare /\ [][NextCompare]_vars
----------------------------------------------------------------------------
(* Claims about the Image Differ                                           *)

CanvasWidth == Max(design_file.img.width, live_file.img.width)
CanvasHeight == Max(design_file.img.height, live_file.img.height)

\* C2: every region compare_images returns has x, y >= 0, width, height >= 1,
\* x + width <= max(W, W'), y + height <= max(H, H'), width =
\* min(region_size, canvasWidth - x) and height = min(region_size,
\* canvasHeight - y); and on a 100 x 100 canvas whose only mismatch is at
\* (95, 95) the list is exactly <<{x: 50, y: 50, width: 50, height: 50}>>.
C2_BoundingBox ==
    cmp_pc = "returned" =>
        /\ \A k \in DOMAIN boxes :
            LET r == boxes[k]
            IN  /\ r.x >= 0 /\ r.y >= 0 /\ r.width >= 1 /\ r.height >= 1
                /\ r.x + r.width <= CanvasWidth
                /\ r.y + r.height <= CanvasHeight
                /\ r.width = Min(50, CanvasWidth - r.x)
                /\ r.height = Min(50, CanvasHeight - r.y)
        /\ ( /\ design_file.img = Image(100, 100, White, <<>>)
             /\ live_file.img = Image(100, 100, White, (<<95, 95>> :> Dark))
             /\ threshold = 1 )
           => boxes = << [x |-> 50, y |-> 50, width |-> 50, height |-> 50] >>

\* C2 witness: two images of different sizes were compared and the call
\* returned a region clipped at the canvas edge.
C2_Witness ==
    /\ cmp_pc = "returned"
    /\ design_file.img.width # live_file.img.width
    /\ \E k \in DOMAIN boxes : boxes[k].width < 50

C5_NoPropagation ==
    (design_file = Unreadable \/ live_file = Unreadable) => cmp_pc # "raised"

----------------------------------------------------------------------------
(* Specification of the Design Spec Extractor                              *)

InitExtract == ExtractInit /\ ClusterIdle /\ CompareIdle /\ ValidateIdle /\ ViewsIdle

NextExtract == ExtractSpecs

SpecExtract == InitExtract /\ [][NextExtract]_vars
----------------------------------------------------------------------------
(* Claims about the Design Spec Extractor                                  *)

InputLayers == Get(zeplin_data, "layers", <<>>)

HasStyleKey(l, group, key) ==
    /\ "style" \in DOMAIN l
    /\ group \in DOMAIN l["style"]
    /\ key \in DOMAIN l["style"][group]

HasRectKey(l, key) == "rect" \in DOMAIN l /\ key \in DOMAIN l["rect"]

\* a property the extractor derives from the layer's fields
Derivable(l) ==
    \/ HasStyleKey(l, "font", "size")
    \/ HasStyleKey(l, "font", "family")
    \/ HasStyleKey(l, "font", "line_height")
    \/ HasStyleKey(l, "color", "r")
    \/ HasRectKey(l, "width")
    \/ HasRectKey(l, "height")

ShouldEmit(l) ==
    /\ "type" \in DOMAIN l /\ l["type"] = "text"
    /\ "content" \in DOMAIN l
    /\ \E i \in DOMAIN l["content"] : l["content"][i] # " "
    /\ Derivable(l)

EmittingLayers == SelectSeq(InputLayers, ShouldEmit)

\* C6: the returned specs are, in layer order, one per layer that is of type
\* text, has content that is not blank after trimming and has at least one
\* derivable expected property; every other layer produces nothing.
C6_EmissionRule ==
    ext_pc = "returned" =>
        /\ Len(specs) = Len(EmittingLayers)
        /\ \A k \in DOMAIN specs :
            /\ specs[k].expected # <<>>
            /\ \A c \in {"b", "c"} :
                c \in Range(specs[k].name) <=> c \in Range(EmittingLayers[k]["content"])

\* C6 witness: of two layers the first, a text layer with blank content,
\* produced nothing and the second produced the only spec.
C6_Witness ==
    /\ ext_pc = "returned"
    /\ Len(InputLayers) = 2
    /\ InputLayers[1] = FullLayer("text", <<" ", " ">>)
    /\ Len(specs) = 1
    /\ "b" \in Range(specs[1].name)

\* C7 (as claimed): a spec carries an expected 'color' only when the keys
\* r, g and b all exist in its layer's style.color.
C7_ColorNeedsAllChannels ==
    ext_pc = "returned" =>
        \A k \in DOMAIN specs :
            k \in DOMAIN EmittingLayers =>
                ( (\E i \in DOMAIN specs[k].expected : specs[k].expected[i].prop = "color")
                  => /\ HasStyleKey(EmittingLayers[k], "color", "r")
                     /\ HasStyleKey(EmittingLayers[k], "color", "g")
                     /\ HasStyleKey(EmittingLayers[k], "color", "b") )

\* C8: whatever subset of a layer's optional fields is missing, and when the
\* design data has no 'layers' key, the extractor returns and does not raise.
C8_Tolerance == ext_pc # "raised"

\* C8 witness: the extractor returned for a text layer without content.
C8_Witness ==
    /\ ext_pc = "returned"
    /\ \E k \in DOMAIN InputLayers :
        /\ "type" \in DOMAIN InputLayers[k] /\ InputLayers[k]["type"] = "text"
        /\ "content" \notin DOMAIN InputLayers[k]

----------------------------------------------------------------------------
(* Specification of validate_css                                           *)

InitValidate == ValidateInit /\ ClusterIdle /\ CompareIdle /\ ViewsIdle

NextValidate == ValidateCssRaises \/ ValidateCssReturns

SpecValidate == InitValidate /\ [][NextValidate]_vars

----------------------------------------------------------------------------
(* Claims about the CSS Audit Engine                                       *)

\* the lookup of a spec fails (not attached within the wait budget) or
\* faults (a computed-style read raises)
LookupFails(spec) ==
    \/ ~page.lookup[spec.selector].attached
    \/ \E i \in DOMAIN spec.expected :
            page.lookup[spec.selector].styles[spec.expected[i].prop] = Fault

IsDefectOf(spec, d) == d.source = "zeplin" /\ d.element = spec.name

\* C9 (as claimed): a spec whose lookup fails or faults contributes exactly
\* one defect (element_found / not_found / FAIL) and no per-property defect.
C9_SingleNotFound ==
    vc_pc = "returned" =>
        \A k \in DOMAIN specs :
            ( /\ LookupFails(specs[k])
              /\ \A j \in DOMAIN specs : specs[j].name = specs[k].name => j = k )
            => LET IsMine(d) == IsDefectOf(specs[k], d)
               IN  SelectSeq(mismatches, IsMine) = <<NotFoundDefect(specs[k].name)>>

\* C10 (as claimed): every defect validate_css returns carries a severity in
\* {critical, high, medium}, a non-empty description and a non-empty CSS fix.
C10_DefectContract ==
    vc_pc = "returned" =>
        \A i \in DOMAIN mismatches :
            /\ "severity" \in DOMAIN mismatches[i]
            /\ mismatches[i]["severity"] \in {"critical", "high", "medium"}
            /\ "description" \in DOMAIN mismatches[i]
            /\ mismatches[i]["description"] # <<>>
            /\ "css_fix" \in DOMAIN mismatches[i]
            /\ mismatches[i]["css_fix"] # <<>>

----------------------------------------------------------------------------
(* Specification of the audit of the live page (no design layers)          *)

InitAudit == AuditInit /\ ClusterIdle /\ CompareIdle /\ ViewsIdle

NextAudit == ValidateCssRaises \/ ValidateCssReturns

SpecAudit == InitAudit /\ [][NextAudit]_vars

----------------------------------------------------------------------------
(* Claims about the audit checks                                           *)

\* the list _audit_live_page works on
LiveElements == extract_live_element_styles(page)

\* the position in els of the first element with the tag of els[k]
FirstOfTag(els, k) ==
    CHOOSE j \in 1..k :
        /\ els[j].tag = els[k].tag
        /\ \A i \in 1..(j - 1) : els[i].tag # els[k].tag

ComparedProps == <<"font-family", "font-size", "color">>

Condensed(d) ==
    [property |-> d.property, expected |-> d.expected, actual |-> d.actual,
     severity |-> d.severity, status |-> d.status, selector |-> d.selector,
     location |-> d.location]

CondensedAll(ds) == [i \in DOMAIN ds |-> Condensed(ds[i])]

\* what C11 expects of element k of els
ExpectedDivergences(els, k) ==
    LET first == FirstOfTag(els, k)
    IN  IF els[k].tag \in {"h1", "h2", "h3", "h4", "p", "a", "button", "li", "span"}
           /\ first < k
        THEN Flatten([n \in DOMAIN ComparedProps |->
                LET prop == ComparedProps[n]
                IN  IF els[k].styles[prop] # els[first].styles[prop]
                    THEN <<[property |-> <<prop>>,
                            expected |-> els[first].styles[prop],
                            actual |-> els[k].styles[prop],
                            severity |-> IF prop = "font-size" THEN "high" ELSE "medium",
                            status |-> IF prop = "font-size" THEN "FAIL" ELSE "WARN",
                            selector |-> els[k].selector,
                            location |-> FullLocation(els[k])]>>
                    ELSE <<>>])
        ELSE <<>>

IsConsistencyDefect(d) ==
    d.source = "audit" /\ d.property \in {<<"font-family">>, <<"font-size">>, <<"color">>}

\* C11: the consistency defects returned are exactly, in element order, one
\* per property among font-family, font-size, color in which a later element
\* of a text tag differs from the first element of that tag; expected is the
\* first element's value, actual the element's own; font-size is high/FAIL,
\* font-family and color medium/WARN; the first element of a tag and the
\* elements of other tags yield none.
C11_Consistency ==
    vc_pc = "returned" =>
        CondensedAll(SelectSeq(mismatches, IsConsistencyDefect))
            = Flatten([k \in DOMAIN LiveElements |-> ExpectedDivergences(LiveElements, k)])

\* three paragraphs, the second and third alike and differing from the first
\* in color only: two color defects, both against the first paragraph
C11_Witness ==
    /\ vc_pc = "returned"
    /\ page.dom = <<Paragraph, ParagraphColor, ParagraphColor>>
    /\ Len(mismatches) = 2
    /\ \A i \in 1..2 :
        /\ mismatches[i].property = <<"color">>
        /\ mismatches[i].expected = Black /\ mismatches[i].actual = Pink
        /\ mismatches[i].severity = "medium" /\ mismatches[i].status = "WARN"

\* C12 (as claimed): a later element of a text tag whose line-height differs
\* from that of the first element of the tag is reported with one
\* line-height defect.
C12_LineHeightCompared ==
    vc_pc = "returned" =>
        \A k \in DOMAIN LiveElements :
            LET first == FirstOfTag(LiveElements, k)
            IN  ( /\ LiveElements[k].tag \in ConsistencyTags
                  /\ first < k
                  /\ LiveElements[k].styles["line-height"]
                        # LiveElements[first].styles["line-height"] )
                => \E i \in DOMAIN mismatches :
                        /\ mismatches[i].property = <<"line-height">>
                        /\ mismatches[i].selector = LiveElements[k].selector

IsOverflowDefect(d) == d.source = "audit" /\ d.property = <<"width (overflow)">>

DesignWidthKnown ==
    "screen" \in DOMAIN zeplin_data /\ "width" \in DOMAIN zeplin_data["screen"]

ExpectedOverflow(el, D) ==
    IF el.tag \in {"div", "nav", "header", "footer", "section", "main"}
       /\ el.position.width > D + 20
    THEN <<[severity |-> "critical", status |-> "FAIL", selector |-> el.selector,
            location |-> PointLocation(el)]>>
    ELSE <<>>

OverflowSeen(d) ==
    [severity |-> d.severity, status |-> d.status, selector |-> d.selector,
     location |-> d.location]

\* C13: with a design width D, the overflow defects (critical, FAIL,
\* property "width (overflow)") are exactly one per live element whose tag is
\* a block container and whose width exceeds D + 20; without a design width
\* there is none.
C13_Overflow ==
    vc_pc = "returned" =>
        LET seen == SelectSeq(mismatches, IsOverflowDefect)
        IN  [i \in DOMAIN seen |-> OverflowSeen(seen[i])]
            = IF DesignWidthKnown
              THEN Flatten([k \in DOMAIN LiveElements |->
                        ExpectedOverflow(LiveElements[k], zeplin_data["screen"]["width"])])
              ELSE <<>>

\* design width 100: a div of width 120 and one of width 121 yield one defect
C13_Witness ==
    /\ vc_pc = "returned"
    /\ DesignWidthKnown
    /\ page.dom = <<DivAtTolerance, DivOver>>
    /\ Len(SelectSeq(mismatches, IsOverflowDefect)) = 1
    /\ SelectSeq(mismatches, IsOverflowDefect)[1].actual = Px(121)

\* C14 (as claimed): every img of the page among the first InstanceLimit
\* whose measured width or height is zero has a high/FAIL dimensions defect.
C14_ZeroImagesReported ==
    vc_pc = "returned" =>
        LET IsImg(node) == node.tag = "img"
            imgs == SelectSeq(page.dom, IsImg)
        IN  \A k \in 1..Min(Len(imgs), InstanceLimit) :
                (imgs[k].rect.width = 0 \/ imgs[k].rect.height = 0)
                => \E i \in DOMAIN mismatches :
                        /\ mismatches[i].property = <<"dimensions">>
                        /\ mismatches[i].severity = "high"
                        /\ mismatches[i].status = "FAIL"

IsContrastDefect(d) == d.source = "audit" /\ d.property = <<"color vs background-color">>

ExpectedContrast(el) ==
    IF el.tag \in {"p", "span", "a", "li", "h1", "h2", "h3", "h4", "button"}
       /\ el.styles["color"] # <<>>
       /\ el.styles["color"] = el.styles["background-color"]
    THEN <<[severity |-> "critical", status |-> "FAIL", selector |-> el.selector,
            location |-> FullLocation(el)]>>
    ELSE <<>>

\* C15: the zero-contrast defects (critical, FAIL, property "color vs
\* background-color") are exactly one per live element of a readable-text
\* tag whose color string is non-empty and equal to its background-color
\* string.
C15_ZeroContrast ==
    vc_pc = "returned" =>
        LET seen == SelectSeq(mismatches, IsContrastDefect)
        IN  [i \in DOMAIN seen |-> OverflowSeen(seen[i])]
            = Flatten([k \in DOMAIN LiveElements |-> ExpectedContrast(LiveElements[k])])

\* a span whose color and background-color are both rgb(0, 0, 0)
C15_Witness ==
    /\ vc_pc = "returned"
    /\ page.dom = <<SpanSame>>
    /\ Len(mismatches) = 1
    /\ mismatches[1].property = <<"color vs background-color">>
    /\ mismatches[1].severity = "critical" /\ mismatches[1].status = "FAIL"

----------------------------------------------------------------------------
(* Specification of the Defect Locator                                     *)

InitLocate ==
    LocateInit /\ RunsIdle /\ ClusterIdle /\ CompareIdle /\ ExtractIdle /\ ValidateIdle

NextLocate == LocateDefect \/ LocateAllDefects

SpecLocate == InitLocate /\ [][NextLocate]_vars

----------------------------------------------------------------------------
(* Claims about the Defect Locator                                         *)

\* the defect a single locate with this context was about
Located == context.defect

NumbersOf(defect) ==
    IF "location" \in DOMAIN defect THEN findall(defect["location"]) ELSE <<>>

\* C16: after a single locate, with n the number of integer runs of the
\* defect's location: n >= 4 gives (x, y, w, h) = the first four; n = 2 or 3
\* gives (x, y) = the first two and w x h = 200 x 50; no numbers, an empty or
\* missing location or an index beyond the list give (0, 0, 200, 50); the
\* context is always produced.
C16_ParsingRule ==
    context # NoContext =>
        LET n == NumbersOf(Located)
            v(i) == int(n[i])
        IN  /\ context.defect_idx >= Len(css_mismatches) => Located = EmptyDict
            /\ Len(n) >= 4 =>
                    /\ context.defect_x = Max(v(1) - 2, 0) /\ context.defect_y = Max(v(2) - 2, 0)
                    /\ context.defect_w = v(3) + 4 /\ context.defect_h = v(4) + 4
            /\ Len(n) \in {2, 3} =>
                    /\ context.defect_x = Max(v(1) - 2, 0) /\ context.defect_y = Max(v(2) - 2, 0)
                    /\ context.defect_w = 204 /\ context.defect_h = 54
            /\ Len(n) = 0 =>
                    /\ context.defect_x = 0 /\ context.defect_y = 0
                    /\ context.defect_w = 204 /\ context.defect_h = 54

\* a location with three numbers, located at its first two with 200 x 50
C16_Witness ==
    /\ context # NoContext
    /\ "location" \in DOMAIN Located /\ Located["location"] = LocationThree
    /\ context.defect_x = 3 /\ context.defect_y = 58
    /\ context.defect_w = 204 /\ context.defect_h = 54

\* C17: after a single locate of a rectangle (x, y, w, h): x' = max(x-2, 0),
\* y' = max(y-2, 0), w' = w+4, h' = h+4, labelY = max(y-24, 0); x', y' and
\* labelY are never negative; "(100, 200) (em dash) 50x30px" gives 98, 198,
\* 54, 34, 176 and "(1,1) (em dash) 10x10px" gives x' = 0, y' = 0.
C17_PaddingAndClamp ==
    context # NoContext =>
        LET r == ParseLocation(Located)
            IsAt(l) == "location" \in DOMAIN Located /\ Located["location"] = l
        IN  /\ context.defect_x = (IF r.x - 2 > 0 THEN r.x - 2 ELSE 0)
            /\ context.defect_y = (IF r.y - 2 > 0 THEN r.y - 2 ELSE 0)
            /\ context.defect_w = r.w + 4
            /\ context.defect_h = r.h + 4
            /\ context.label_y = (IF r.y - 24 > 0 THEN r.y - 24 ELSE 0)
            /\ context.defect_x >= 0 /\ context.defect_y >= 0 /\ context.label_y >= 0
            /\ IsAt(LocationFull) =>
                    /\ context.defect_x = 98 /\ context.defect_y = 198
                    /\ context.defect_w = 54 /\ context.defect_h = 34
                    /\ context.label_y = 176
            /\ IsAt(LocationNearOrigin) =>
                    context.defect_x = 0 /\ context.defect_y = 0

\* the locate of "(1,1) (em dash) 10x10px"
C17_Witness ==
    /\ context # NoContext
    /\ "location" \in DOMAIN Located /\ Located["location"] = LocationNearOrigin
    /\ context.defect_x = 0 /\ context.defect_y = 0 /\ context.label_y = 0
    /\ context.defect_w = 14 /\ context.defect_h = 14

\* what C18 expects the batch to hold for defect number idx (from 0)
ExpectedLocated(defects, idx) ==
    LET single == LocateDefectContext(defects, idx)
    IN  IF /\ Len(NumbersOf(defects[idx + 1])) >= 2
           /\ single.defect_w - 4 > 0 /\ single.defect_h - 4 > 0
        THEN <<[idx |-> idx, x |-> single.defect_x, y |-> single.defect_y,
                w |-> single.defect_w, h |-> single.defect_h,
                label_y |-> single.label_y, color_cls |-> single.severity_color]>>
        ELSE <<>>

BatchSeen(d) ==
    [idx |-> d.idx, x |-> d.x, y |-> d.y, w |-> d.w, h |-> d.h,
     label_y |-> d.label_y, color_cls |-> d.color_cls]

\* C18 (as claimed): of the defects whose location has at least two
\* numbers, the batch holds, in input order and with their index, exactly
\* those whose rectangle under the single-locate rule (200 x 50 default for
\* two or three numbers included) has positive width and height, each with
\* the geometry and color class single locate gives it.
C18_BatchSameRule ==
    defects_with_coords # NotLocated =>
        LET HasPoint(d) == Len(NumbersOf(css_mismatches[d.idx + 1])) >= 2
            seen == SelectSeq(defects_with_coords, HasPoint)
        IN  [i \in DOMAIN seen |-> BatchSeen(seen[i])]
            = Flatten([k \in DOMAIN css_mismatches |-> ExpectedLocated(css_mismatches, k - 1)])

----------------------------------------------------------------------------
(* Specification of concurrent validation runs                             *)

InitRuns ==
    RunsInit /\ LocateIdle /\ ClusterIdle /\ CompareIdle /\ ExtractIdle /\ ValidateIdle

NextRuns ==
    \E r \in Runs :
        \/ FetchScreen(r)
        \/ ServiceRaises(r)
        \/ DownloadDesign(r)
        \/ CaptureScreenshot(r)
        \/ CompareRun(r)
        \/ CompareRunRaises(r)
        \/ CssValidation(r)
        \/ AttachImage(r)
        \/ AttachImageRaises(r)
        \/ SaveReport(r)
        \/ RemoveTemp(r)

SpecRuns == InitRuns /\ [][NextRuns]_vars

----------------------------------------------------------------------------
(* Claims about validation runs                                            *)

OwnDesign(r) == DesignImage(run_input[r].screen_id)
OwnLive(r) == Screenshot(run_input[r].live_url)

\* C19 (as claimed): under any interleaving of two runs with different
\* inputs, a report a run stores holds the design image of its own screen,
\* the screenshot of its own live url and the diff of these two, and no run
\* fails because a file it depends on was removed by the other.
C19_RunIndependence ==
    /\ \A rep \in saved :
            /\ rep.design_image = OwnDesign(rep.run)
            /\ rep.live_image = OwnLive(rep.run)
            /\ rep.diff_image = DiffImage(OwnDesign(rep.run), OwnLive(rep.run))
    /\ \A r \in Runs :
            pc[r] \in {"compare"} \cup DOMAIN AttachStep
                => \A p \in {design_img_path(r), live_img_path(r)} : files[p] # Absent

ReportedFields ==
    {"pixel_mismatch_count", "mismatch_regions", "css_mismatches", "element_inventory"}

SavedBy(r) == { rep \in saved : rep.run = r }

Completed(r) == pc[r] \in DOMAIN RemoveStep \cup {"done"}

\* C20: a run that completed has stored exactly one report, with mismatch
\* count, regions, defects and inventory all set and the three images
\* attached, and no error; a run that failed has stored no report and raised
\* exactly one error; a run still under way has stored nothing.
C20_AllOrNothing ==
    \A r \in Runs :
        /\ Completed(r) =>
                /\ Cardinality(SavedBy(r)) = 1
                /\ \A rep \in SavedBy(r) :
                        /\ ReportedFields \subseteq rep.fields
                        /\ rep.design_image # Absent /\ rep.live_image # Absent
                        /\ rep.diff_image # Absent
                /\ errors[r] = 0
        /\ pc[r] = "failed" => SavedBy(r) = {} /\ errors[r] = 1
        /\ ~Completed(r) /\ pc[r] # "failed" => SavedBy(r) = {} /\ errors[r] = 0

\* one run completed while the other failed after the comparison
C20_Witness ==
    \E a, b \in Runs :
        /\ pc[a] = "done" /\ Cardinality(SavedBy(a)) = 1
        /\ pc[b] = "failed" /\ "pixel_mismatch_count" \in report[b].fields
        /\ SavedBy(b) = {}

\* the element of a spec was located and every read of its styles succeeded
LookupSucceeds(spec) == ~LookupFails(spec)

\* what C22 expects of a spec whose lookup succeeds
ExpectedMismatches(spec) ==
    LET styles == page.lookup[spec.selector].styles
    IN  Flatten([i \in DOMAIN spec.expected |->
            LET prop == spec.expected[i].prop
                exp_val == spec.expected[i].value
            IN  IF strip(styles[prop]) # strip(exp_val)
                THEN <<[element |-> spec.name, property |-> <<prop>>, expected |-> exp_val,
                        actual |-> styles[prop], source |-> "zeplin", status |-> "FAIL"]>>
                ELSE <<>>])

\* C22: a spec whose element is located and whose style reads all succeed
\* contributes exactly one FAIL defect, carrying the expected and the actual
\* value, per expected property whose trimmed live value differs from the
\* trimmed expected value, in the order of the expected map; matching
\* properties contribute nothing and there is no not-found defect.
C22_CrossCheck ==
    vc_pc = "returned" =>
        \A k \in DOMAIN specs :
            ( /\ LookupSucceeds(specs[k])
              /\ \A j \in DOMAIN specs : specs[j].name = specs[k].name => j = k )
            => LET IsMine(d) == IsDefectOf(specs[k], d)
               IN  SelectSeq(mismatches, IsMine) = ExpectedMismatches(specs[k])

\* the element of layer "b" is found with font-size 14px and font-family
\* Georgia against 16px and Arial, that of layer "c" with a padded " 16px":
\* two defects for "b" in the order of its expected map, none for "c"
C22_Witness ==
    /\ vc_pc = "returned"
    /\ Len(specs) = 2 /\ specs[1].selector = SelectorB /\ specs[2].selector = SelectorC
    /\ page.lookup[SelectorB] = Attached(("font-size" :> Px(14)) @@ ("font-family" :> Serif))
    /\ page.lookup[SelectorC] = Attached("font-size" :> (<<" ">> \o Px(16)))
    /\ LET IsZeplin(d) == d.source = "zeplin"
           seen == SelectSeq(mismatches, IsZeplin)
       IN  /\ Len(seen) = 2
           /\ seen[1].property = <<"font-size">> /\ seen[1].actual = Px(14)
           /\ seen[2].property = <<"font-family">> /\ seen[2].actual = Serif

\* the sub-check a defect comes from: 1 cross-check, 2 consistency,
\* 3 overflow, 4 broken image, 5 zero contrast
GroupOf(d) ==
    IF d.source = "zeplin" THEN 1
    ELSE IF d.property \in {<<"font-family">>, <<"font-size">>, <<"color">>} THEN 2
    ELSE IF d.property = <<"width (overflow)">> THEN 3
    ELSE IF d.property = <<"dimensions">> THEN 4
    ELSE 5

\* the keys ks can be read off the keys of es in order: each key of ks is
\* the key of an entry of es, successive keys never going back in es
RECURSIVE InOrder(_, _)
InOrder(ks, es) ==
    IF ks = <<>> THEN TRUE
    ELSE IF es = <<>> THEN FALSE
    ELSE \/ Head(ks) = Head(es) /\ InOrder(Tail(ks), es)
         \/ InOrder(ks, Tail(es))

\* a defect of the audit names its element by selector and location
AuditKey(d) == [selector |-> d.selector, location |-> d.location]

GroupKeys(g) ==
    LET InGroup(d) == GroupOf(d) = g
        ds == SelectSeq(mismatches, InGroup)
    IN  [i \in DOMAIN ds |-> IF g = 1 THEN [element |-> ds[i].element] ELSE AuditKey(ds[i])]

ElementKeys(live, g) ==
    [k \in DOMAIN live |->
        [selector |-> live[k].selector,
         location |-> IF g \in {2, 5} THEN FullLocation(live[k])
                      ELSE PointLocation(live[k])]]

\* C23: the returned list holds the cross-check defects, then those of the
\* consistency, overflow, broken-image and zero-contrast checks, in this
\* order of groups; the cross-check defects follow the order of the specs
\* and each audit group the order of the live elements; the inventory has
\* one row per live element, in order.
C23_DefectOrder ==
    vc_pc = "returned" =>
        LET live == LiveElements
        IN  /\ \A i \in 1..(Len(mismatches) - 1) :
                    GroupOf(mismatches[i]) <= GroupOf(mismatches[i + 1])
            /\ InOrder(GroupKeys(1), [k \in DOMAIN specs |-> [element |-> specs[k].name]])
            /\ \A g \in 2..5 : InOrder(GroupKeys(g), ElementKeys(live, g))
            /\ Len(element_inventory) = Len(live)
            /\ \A k \in DOMAIN element_inventory :
                    /\ element_inventory[k].element = live[k].name
                    /\ element_inventory[k].selector = live[k].selector
                    /\ element_inventory[k].position = PointLocation(live[k])

\* a cross-check defect, then the overflow of a div read after an image,
\* then the defect of that image; two inventory rows, image first
C23_Witness ==
    /\ vc_pc = "returned"
    /\ Len(mismatches) >= 3
    /\ GroupOf(mismatches[1]) = 1
    /\ \E i \in DOMAIN mismatches :
            /\ i < Len(mismatches)
            /\ GroupOf(mismatches[i]) = 3 /\ GroupOf(mismatches[i + 1]) = 4
    /\ Len(element_inventory) = 2
    /\ element_inventory[1].selector = <<"img">> /\ element_inventory[2].selector = <<"div">>

----------------------------------------------------------------------------
(* Specification of a validation whose defects are stored and located      *)

InitRoundTrip == RoundTripInit /\ LocateIdle /\ RunsIdle /\ ClusterIdle /\ CompareIdle

NextRoundTrip ==
    ValidateCssReturns \/ StoreMismatches \/ LocateDefect \/ LocateAllDefects

SpecRoundTrip == InitRoundTrip /\ [][NextRoundTrip]_vars

\* the overlay is that of the element's own rectangle
HugsElement(el, x, y, w, h) ==
    /\ x = Max(el.position.x - 2, 0)
    /\ y = Max(el.position.y - 2, 0)
    /\ w = el.position.width + 4
    /\ h = el.position.height + 4

\* the live elements a defect of the consistency or contrast check is about
ElementsOf(d) ==
    { k \in DOMAIN LiveElements :
        /\ LiveElements[k].selector = d.selector
        /\ FullLocation(LiveElements[k]) = d.location }

\* C24 (as claimed): a stored defect of the consistency or contrast check is
\* located, by the single and by the batch locate, at the rectangle of its
\* element: (max(x-2, 0), max(y-2, 0), width+4, height+4), also when x or y
\* is negative.
C24_LocationRoundTrip ==
    /\ (context # NoContext /\ Located # EmptyDict) =>
            \A k \in ElementsOf(Located) :
                HugsElement(LiveElements[k], context.defect_x, context.defect_y,
                            context.defect_w, context.defect_h)
    /\ defects_with_coords # NotLocated =>
            \A i \in DOMAIN defects_with_coords :
                \A k \in ElementsOf(defects_with_coords[i]) :
                    HugsElement(LiveElements[k], defects_with_coords[i].x,
                                defects_with_coords[i].y, defects_with_coords[i].w,
                                defects_with_coords[i].h)

====
